---- MODULE Spec2Model ----
(***************************************************************************)
(* A model of the signal-processing core of nih-reverb: the delay line     *)
(* (src/src/delay.rs), the pitch shifter (src/src/pitch.rs), the biquad    *)
(* filter (src/src/biquad.rs) and the biquad plugin's audio/parameter      *)
(* threads (src/plugin-biquad/src/lib.rs), the mixing transforms           *)
(* (src/src/householder.rs, src/src/hadamard.rs), and the reverb engine    *)
(* (src/src/lib.rs, early.rs, diffusion.rs).                               *)
(*                                                                         *)
(* Arithmetic.  The code computes in f32.  The model computes exactly, in  *)
(* integers: a delay position is a whole number of 1/FRAC samples, a       *)
(* sample is a small integer, and the value of an interpolated tap is a    *)
(* numerator over the fixed denominator DEN = 2*FRAC^3.  On these inputs   *)
(* every f32 operation of the modelled code is exact, so the model and the *)
(* code agree; f32 rounding of other inputs is outside the model.  The     *)
(* engine's samples are kept exactly or by their kind, and the biquad's    *)
(* step-response test rounds to a grid of 1/Scale (see below).             *)
(***************************************************************************)
EXTENDS Integers, Sequences, FiniteSets, TLC

VARIABLES
    buffer,     \* Delay::buffer, front (index 0 in the code) first
    capacity,   \* the max_delay the line was built with
    pushed,     \* every sample pushed since Delay::new, oldest first
    lastOp,     \* the last call on the delay line and what it did
    pitch,      \* a PitchShifter and the calls made on it
    bq,         \* a Biquad and the last call made on it
    plug,       \* the biquad plugin: its audio thread and its parameter thread
    mix,        \* a lane-vector and the mixing transform applied to it
    rv,         \* the reverb engine and the last call made on it
    st,         \* the biquad's step-response test and the samples it has run
    blk         \* an early-reflection cascade run block by block

dlVars == <<buffer, capacity, pushed, lastOp>>

vars == <<dlVars, pitch, bq, plug, mix, rv, st, blk>>

----------------------------------------------------------------------------
(* Bounds of the model *)

\* positions are multiples of 1/FRAC sample
FRAC == 2

\* lanes of a lane-vector in the delay-line specification
Lanes == 2

\* capacities given to Delay::new: 0..MaxCap
MaxCap == 3

\* pushes followed per delay line
MaxPushes == 4

\* tap positions range over -MaxPos..MaxPos (in 1/FRAC samples)
MaxPos == 9

\* calls of PitchShifter::next_sample followed
MaxCalls == 5

\* buffer lengths given to PitchShifter::new: 1..MaxPitchLen
MaxPitchLen == 4

\* a Biquad's history cells are followed while they stay within -MaxAmp..MaxAmp
MaxAmp == 3

\* audio callbacks and parameter changes followed in the biquad plugin
MaxPlugCalls == 3

MaxModeChanges == 2

\* the lanes of a mixed vector hold values in -1..MaxMix
MaxMix == 1

\* the engine is built at the sample rate 40 * RateUnit
RateUnit == 1000

\* calls of Reverb::next_sample followed
MaxEngineCalls == 6

\* samples in a block handed to Early::next_block
BlockLen == 2

\* calls of Early::next_block followed
MaxBlocks == 2

\* the step-response test computes on the grid of multiples of 1/Scale
Scale == 4096

\* the denominator of an interpolated value
DEN == 2 * FRAC * FRAC * FRAC

----------------------------------------------------------------------------
(* Lane vectors *)

LaneIdx == 1..Lanes

Splat(x) == [l \in LaneIdx |-> x]

\* the unit impulse and the other frames pushed in the delay-line specification
UnitFrame == Splat(1)

RampFrame == [l \in LaneIdx |-> l + 1]

Frames == {Splat(0), UnitFrame, RampFrame}

----------------------------------------------------------------------------
(* f32 helpers on the 1/FRAC grid *)

\* Rust's % on floats: the remainder has the sign of the dividend
Fmod(a, b) == IF a >= 0 THEN a % b ELSE -((-a) % b)

\* f32::floor followed by `as usize`: a negative value saturates to 0
FloorUsize(p) == IF p < 0 THEN 0 ELSE p \div FRAC

\* f32::fract: p - trunc(p), in 1/FRAC units (negative for negative p)
Fract(p) == Fmod(p, FRAC)

SaturatingSub(i, k) == IF i < k THEN 0 ELSE i - k

Clamp(i, lo, hi) == IF i < lo THEN lo ELSE IF i > hi THEN hi ELSE i

----------------------------------------------------------------------------
(* Delay (src/src/delay.rs) *)

\* Delay::new: max_delay default (zero) frames
DelayNew(maxDelay) == [i \in 1..maxDelay |-> Splat(0)]

\* Delay::push_next: pop_back (a no-op on an empty deque), then push_front
PushNext(buf, next) ==
    LET popped == IF Len(buf) = 0 THEN buf ELSE SubSeq(buf, 1, Len(buf) - 1)
    IN  <<next>> \o popped

\* Delay::len after Delay::push_next on a deque of length len
PushLen(len) == IF len = 0 THEN 1 ELSE len

\* Delay::sample on a deque of length len, the index it reads: i.clamp(0, len)
SampleIndex(len, i) == Clamp(i, 0, len)

\* Delay::sample aborts when that index is not an index of the deque
SampleOob(len, i) == len > 0 /\ SampleIndex(len, i) >= len

\* Delay::sample, the frame it returns (zero frame when the deque is empty)
Sample(buf, i) ==
    IF Len(buf) = 0 \/ SampleOob(Len(buf), i) THEN Splat(0)
    ELSE buf[SampleIndex(Len(buf), i) + 1]

\* cubic(t, p), as a numerator over DEN, with t = n/FRAC
Cubic(n, p) ==
    [l \in LaneIdx |->
        DEN * p[2][l]
        + n * ( FRAC * FRAC * (p[3][l] - p[1][l])
              + n * ( FRAC * (2 * p[1][l] - 5 * p[2][l] + 4 * p[3][l] - p[4][l])
                    + n * (3 * (p[2][l] - p[3][l]) + p[4][l] - p[1][l]) ) )]

\* Delay::tap, first line: (pos + len) % len, for a deque of length len > 0
TapPosition(len, pos) == Fmod(pos + len * FRAC, len * FRAC)

\* the four indices Delay::tap hands to Delay::sample
TapAnchors(ix) ==
    <<SaturatingSub(ix, 2), SaturatingSub(ix, 1), ix, ix + 1>>

\* Delay::tap aborts when one of its four reads does
TapAborts(len, pos) ==
    /\ len > 0
    /\ \E j \in 1..4 : SampleOob(len, TapAnchors(FloorUsize(TapPosition(len, pos)))[j])

\* Delay::tap.  With an empty deque the position is x % 0 = NaN, `NaN as usize`
\* is 0, every sample is the zero frame and cubic(NaN, ..) is NaN.
Tap(buf, pos) ==
    IF Len(buf) = 0
    THEN [idx |-> <<0, 0, 0, 0>>, panic |-> FALSE, nan |-> TRUE, out |-> Splat(0)]
    ELSE
      LET p   == TapPosition(Len(buf), pos)
          an  == TapAnchors(FloorUsize(p))
          oob == TapAborts(Len(buf), pos)
      IN  [idx   |-> [j \in 1..4 |-> SampleIndex(Len(buf), an[j])],
           panic |-> oob,
           nan   |-> FALSE,
           out   |-> IF oob THEN Splat(0)
                     ELSE Cubic(Fract(p), [j \in 1..4 |-> Sample(buf, an[j])])]

\* Delay::get: lane i of the result is lane i of tap(pos[i]); the lanes are
\* tapped in order, so the first tap that aborts ends the call
Get(buf, pos) ==
    LET t(l)   == Tap(buf, pos[l])
        bad    == {l \in LaneIdx : t(l).panic}
        first  == IF bad = {} THEN Lanes
                  ELSE CHOOSE l \in bad : \A m \in bad : l <= m
    IN  [idx   |-> [l \in 1..first |-> t(l).idx],
         panic |-> bad # {},
         nan   |-> \E l \in LaneIdx : t(l).nan,
         out   |-> IF bad # {} THEN Splat(0) ELSE [l \in LaneIdx |-> t(l).out[l]]]

----------------------------------------------------------------------------
(* The delay-line specification: a line of any capacity, any calls *)

Positions == (-MaxPos)..MaxPos

\* Delay::get is followed on these positions
GetPositions == {-1, 0, FRAC, MaxPos}

NoOp == [op |-> "new", pos |-> <<>>, idx |-> <<>>, panic |-> FALSE,
         nan |-> FALSE, out |-> Splat(0)]

DelayInit ==
    /\ capacity \in 0..MaxCap
    /\ buffer = DelayNew(capacity)
    /\ pushed = <<>>
    /\ lastOp = NoOp

DelayIdle ==
    /\ capacity = 0
    /\ buffer = DelayNew(0)
    /\ pushed = <<>>
    /\ lastOp = NoOp

\* an abort ends the program: nothing is called on the line afterwards
Alive == ~lastOp.panic

DoPush(x) ==
    /\ Alive
    /\ Len(pushed) < MaxPushes
    /\ buffer' = PushNext(buffer, x)
    /\ pushed' = Append(pushed, x)
    /\ lastOp' = [op |-> "push", pos |-> <<>>, idx |-> <<>>, panic |-> FALSE,
                  nan |-> FALSE, out |-> Splat(0)]
    /\ UNCHANGED <<capacity, pitch, bq, plug, mix, rv, st, blk>>

DoTap(pos) ==
    /\ Alive
    /\ LET r == Tap(buffer, pos)
       IN  lastOp' = [op |-> "tap", pos |-> <<pos>>, idx |-> <<r.idx>>,
                      panic |-> r.panic, nan |-> r.nan, out |-> r.out]
    /\ UNCHANGED <<buffer, capacity, pushed, pitch, bq, plug, mix, rv, st, blk>>

DoGet(pos) ==
    /\ Alive
    /\ LET r == Get(buffer, pos)
       IN  lastOp' = [op |-> "get", pos |-> pos, idx |-> r.idx,
                      panic |-> r.panic, nan |-> r.nan, out |-> r.out]
    /\ UNCHANGED <<buffer, capacity, pushed, pitch, bq, plug, mix, rv, st, blk>>

DelayNext ==
    \/ \E x \in Frames : DoPush(x)
    \/ \E pos \in Positions : DoTap(pos)
    \/ \E pos \in [LaneIdx -> GetPositions] : DoGet(pos)

----------------------------------------------------------------------------
(* Claims about the delay line, checked under Spec *)

IsInteger(pos) == pos % FRAC = 0

\* every index the last tap or get read the deque at
ReadIndices == {lastOp.idx[t][j] : t \in DOMAIN lastOp.idx, j \in 1..4}

\* C1: on a line built with capacity >= 1, a tap (or get) at any position
\* does not abort and reads the buffer only at indices 0..capacity-1.
C1_TapInBounds ==
    (capacity >= 1 /\ lastOp.op \in {"tap", "get"})
        => /\ ~lastOp.panic
           /\ \A i \in ReadIndices : 0 <= i /\ i <= capacity - 1

\* C2: tap(k) at an integer position k, 0 <= k < capacity, returns exactly
\* buffer[k] (buffer[0] being the sample pushed last).
C2_TapExactAtIntegers ==
    (/\ lastOp.op = "tap"
     /\ IsInteger(lastOp.pos[1])
     /\ 0 <= lastOp.pos[1]
     /\ lastOp.pos[1] < capacity * FRAC)
        => /\ ~lastOp.panic
           /\ ~lastOp.nan
           /\ lastOp.out =
                [l \in LaneIdx |-> DEN * buffer[(lastOp.pos[1] \div FRAC) + 1][l]]

\* C4: len() equals the capacity given to new(capacity), after any calls.
C4_LenNeverChanges == Len(buffer) = capacity

\* the pushes so far are one unit impulse followed by j silent frames
ImpulseThenSilence(j) ==
    /\ Len(pushed) = j + 1
    /\ pushed[1] = UnitFrame
    /\ \A i \in 2..(j + 1) : pushed[i] = Splat(0)

\* C5: from a silent line of capacity N, after an impulse and j < N silent
\* pushes the impulse is at position j and nowhere else; after N silent
\* pushes the buffer is silent and a tap at any valid position returns 0.
C5_ImpulseDecay ==
    \A j \in 0..MaxPushes :
        ImpulseThenSilence(j) =>
            /\ j < capacity =>
                 /\ Len(buffer) = capacity
                 /\ \A i \in 1..capacity :
                      buffer[i] = IF i = j + 1 THEN UnitFrame ELSE Splat(0)
            /\ j = capacity =>
                 /\ \A i \in 1..Len(buffer) : buffer[i] = Splat(0)
                 /\ (/\ lastOp.op = "tap"
                     /\ 0 <= lastOp.pos[1]
                     /\ lastOp.pos[1] < capacity * FRAC)
                        => /\ ~lastOp.panic
                           /\ lastOp.out = Splat(0)

----------------------------------------------------------------------------
(* PitchShifter (src/src/pitch.rs) *)

\* PitchShifter::new
PitchNew(maxDelay) == [buffer |-> DelayNew(maxDelay), pos |-> 0]

\* the read position without the wrap
PitchAdvanceNoWrap(len, pos, ratio) == pos + ratio

\* PitchShifter::next_sample, the read position: pos += pitch, and
\* pos -= len when pos > len
PitchAdvance(len, pos, ratio) ==
    IF pos + ratio > len * FRAC THEN pos + ratio - len * FRAC ELSE pos + ratio

\* PitchShifter::next_sample: tap at pos, advance pos by the ratio and wrap
\* it once when it exceeds the length, push the input.  An abort in tap
\* leaves the call unfinished.
PitchNextSample(self, ratio, input) ==
    LET t == Tap(self.buffer, self.pos)
    IN  [panic |-> t.panic,
         nan   |-> t.nan,
         out   |-> t.out,
         self  |-> IF t.panic THEN self
                   ELSE [buffer |-> PushNext(self.buffer, input),
                         pos    |-> PitchAdvance(Len(self.buffer), self.pos, ratio)]]

\* the ratios followed: 1.0 and the engine's 2.0
PitchRatios == {FRAC, 2 * FRAC}

PitchFrames == {Splat(0), UnitFrame}

PitchIdle ==
    pitch = [self |-> PitchNew(0), ins |-> <<>>, outs |-> <<>>,
             unity |-> TRUE, below |-> TRUE, panic |-> FALSE]

PitchInit ==
    \E n \in 1..MaxPitchLen :
        pitch = [self |-> PitchNew(n), ins |-> <<>>, outs |-> <<>>,
                 unity |-> TRUE, below |-> TRUE, panic |-> FALSE]

\* one call of next_sample; ins and outs keep the inputs given and the
\* frames returned, unity whether every ratio so far was 1.0, below whether
\* every ratio so far was below the buffer length
DoPitch(ratio, input) ==
    /\ ~pitch.panic
    /\ Len(pitch.ins) < MaxCalls
    /\ LET r == PitchNextSample(pitch.self, ratio, input)
       IN  pitch' = [self  |-> r.self,
                     ins   |-> Append(pitch.ins, input),
                     outs  |-> IF r.panic THEN pitch.outs
                               ELSE Append(pitch.outs, r.out),
                     unity |-> pitch.unity /\ ratio = FRAC,
                     below |-> pitch.below
                                 /\ ratio < Len(pitch.self.buffer) * FRAC,
                     panic |-> r.panic]
    /\ UNCHANGED <<dlVars, bq, plug, mix, rv, st, blk>>

PitchNext == \E ratio \in PitchRatios, input \in PitchFrames : DoPitch(ratio, input)

\* the input of call m; before the first call the line holds silence
PitchInputAt(m) == IF m >= 1 THEN pitch.ins[m] ELSE Splat(0)

\* C6: with ratio 1.0 on every call no call aborts, and from the call at
\* which the buffer has filled on, the output of call n is the input of call
\* n - D, unchanged, for one constant D.
C6_PitchPassThrough ==
    pitch.unity =>
        /\ ~pitch.panic
        /\ \E D \in 0..MaxCalls :
             \A n \in 1..Len(pitch.outs) :
                n > Len(pitch.self.buffer) =>
                    pitch.outs[n] = [l \in LaneIdx |-> DEN * PitchInputAt(n - D)[l]]

PitchLen == Len(pitch.self.buffer)

\* C14: after any calls of next_sample with ratios above 0 and below the
\* buffer length, 0 <= read_position < buffer length.
C14_ReadPositionBelowLen ==
    pitch.below =>
        0 <= pitch.self.pos /\ pitch.self.pos < PitchLen * FRAC

\* C14, amended: after any calls of next_sample with ratios above 0 and
\* below the buffer length, 0 <= read_position <= buffer length.
C14_ReadPositionAtMostLen ==
    pitch.below =>
        0 <= pitch.self.pos /\ pitch.self.pos <= PitchLen * FRAC

\* the read position has been wrapped, with the ratio 2.0 among the calls
\* and an even buffer length longer than the ratio
C14_Witness ==
    /\ pitch.below /\ ~pitch.panic /\ ~pitch.unity
    /\ PitchLen % 2 = 0
    /\ Len(pitch.ins) > PitchLen \div 2
    /\ pitch.self.pos = 2 * FRAC


----------------------------------------------------------------------------
(* Biquad (src/src/biquad.rs), one lane: every operation is lane-wise *)

\* BiquadParams::default: the identity filter
BiquadParamsDefault == [a |-> <<0, 0>>, b |-> <<1, 0, 0>>]

\* Biquad::new / Biquad::default
BiquadNew(params) == [params |-> params, state |-> <<0, 0>>]

\* the update with the two history cells written in the other order
BiquadNextSampleReordered(self, input) ==
    LET out == self.state[1] + self.params.b[1] * input
        s1  == self.params.b[3] * input - self.params.a[2] * out
        s0  == s1 + self.params.b[2] * input - self.params.a[1] * out
    IN  [out |-> out, self |-> [params |-> self.params, state |-> <<s0, s1>>]]

\* Biquad::next_sample.  a[1], a[2] are the code's a[0], a[1] (a1, a2);
\* b[1..3] its b[0..2]; state[1], state[2] its state[0], state[1].
BiquadNextSample(self, input) ==
    LET out == self.state[1] + self.params.b[1] * input
        s0  == self.state[2] + self.params.b[2] * input - self.params.a[1] * out
        s1  == self.params.b[3] * input - self.params.a[2] * out
    IN  [out |-> out, self |-> [params |-> self.params, state |-> <<s0, s1>>]]

\* Biquad::reset
BiquadReset(self) == [params |-> self.params, state |-> <<0, 0>>]

----------------------------------------------------------------------------
(* The biquad specification: any coefficients, any inputs *)

Coefs == {-1, 0, 1}

ParamSets == [a : [1..2 -> Coefs], b : [1..3 -> Coefs]]

\* the coefficient sets written to the public field `params` between calls
ReParams == {BiquadParamsDefault,
             [a |-> <<-1, 1>>, b |-> <<1, -1, 1>>],
             [a |-> <<1, -1>>, b |-> <<-1, 1, 1>>]}

BiquadInputs == {-1, 0, 1}

InAmp(x) == -MaxAmp <= x /\ x <= MaxAmp

BiquadIdle ==
    bq = [self |-> BiquadNew(BiquadParamsDefault), op |-> "new", input |-> 0, out |-> 0]

BiquadInit ==
    \E p \in ParamSets :
        bq = [self |-> BiquadNew(p), op |-> "new", input |-> 0, out |-> 0]

DoBiquadSample(input) ==
    /\ LET r == BiquadNextSample(bq.self, input)
       IN  /\ InAmp(r.self.state[1]) /\ InAmp(r.self.state[2])
           /\ bq' = [self |-> r.self, op |-> "next_sample", input |-> input,
                     out |-> r.out]
    /\ UNCHANGED <<dlVars, pitch, plug, mix, rv, st, blk>>

DoBiquadSetParams(p) ==
    /\ bq' = [self |-> [params |-> p, state |-> bq.self.state], op |-> "params",
              input |-> 0, out |-> 0]
    /\ UNCHANGED <<dlVars, pitch, plug, mix, rv, st, blk>>

DoBiquadReset ==
    /\ bq' = [self |-> BiquadReset(bq.self), op |-> "reset", input |-> 0, out |-> 0]
    /\ UNCHANGED <<dlVars, pitch, plug, mix, rv, st, blk>>

BiquadNext ==
    \/ \E x \in BiquadInputs : DoBiquadSample(x)
    \/ \E p \in ReParams : DoBiquadSetParams(p)
    \/ DoBiquadReset

\* C8: next_sample(input) returns y = state0 + b0*input and leaves
\* state0' = state1 + b1*input - a1*y and state1' = b2*input - a2*y, with
\* state1 the value before the call; the coefficients are unchanged.
C8_TransposedDirectForm2 ==
    [][bq'.op = "next_sample" =>
         LET x == bq'.input
             y == bq'.out
             c == bq.self.params
         IN  /\ y = bq.self.state[1] + c.b[1] * x
             /\ bq'.self.state[1] = bq.self.state[2] + c.b[2] * x - c.a[1] * y
             /\ bq'.self.state[2] = c.b[3] * x - c.a[2] * y
             /\ bq'.self.params = c]_vars

\* a call with no zero among input, history and coefficients
C8_Witness ==
    /\ bq.op = "next_sample"
    /\ bq.input # 0 /\ bq.out # 0
    /\ bq.self.state[1] # 0 /\ bq.self.state[2] # 0
    /\ \A i \in 1..2 : bq.self.params.a[i] # 0
    /\ \A i \in 1..3 : bq.self.params.b[i] # 0

----------------------------------------------------------------------------
(* The step-response test of the one-pole filters (src/src/biquad.rs:      *)
(* BiquadParams::lowpass_1p, BiquadParams::highpass_1p, tests::test_unit). *)
(* The code computes in f32, whose values in [1/2, 1) are the multiples of *)
(* 2^-24.  Here a value is a whole number of 1/Scale, and every quotient   *)
(* and product is rounded to the nearest one, as f32 rounds to the nearest *)
(* value of its own grid.  The constant 0.3 and the value of f32::tan are  *)
(* not multiples of 1/Scale: each is any grid value of an interval that    *)
(* holds it.                                                               *)

\* fc = 0.3 = FcTenths / 10
FcTenths == 3

\* test_unit: repeat(0.).take(10) before the ones
LeadingZeros == 10

\* test_unit: .take(5000).last()
StepSamples == 5000

\* the tolerance of assert_abs_diff_eq: f32::EPSILON = 2^-23, two steps of
\* the grid of f32 below 1
Epsilon == 2

CeilDiv(a, b) == -((-a) \div b)

\* a / b to the nearest integer, b > 0
RoundDiv(a, b) ==
    IF a >= 0 THEN (2 * a + b) \div (2 * b) ELSE -((2 * (-a) + b) \div (2 * b))

\* the product and the quotient of two grid values
FxMul(a, b) == RoundDiv(a * b, Scale)

FxDiv(a, b) == RoundDiv(a * Scale, b)

\* the grid values of 0.3
FcValues == ((FcTenths * Scale) \div 10)..CeilDiv(FcTenths * Scale, 10)

\* x + x^3/3 <= tan x <= x + x^3/3 + x^5 for 0 <= x <= 1
TanLo(x) == x + ((((x * x) \div Scale) * x) \div Scale) \div 3

TanHi(x) ==
    LET sq == CeilDiv(x * x, Scale)
        cu == CeilDiv(sq * x, Scale)
    IN  x + CeilDiv(cu, 3) + CeilDiv(cu * sq, Scale)

\* simd_f32tan(fc / 2): the grid values of the interval holding tan(fc/2)
TanHalf(fc) == TanLo(fc \div 2)..TanHi(CeilDiv(fc, 2))

\* highpass_1p with b1 of the sign of b0
Highpass1pSameSign(fc, k) ==
    LET a == Scale + k
    IN  [a |-> <<FxDiv(-(Scale - fc), a), 0>>,
         b |-> <<FxDiv(Scale, a), FxDiv(Scale, a), 0>>]

\* BiquadParams::lowpass_1p, k the value of tan(fc/2); q is not used
Lowpass1p(fc, k) ==
    LET a == Scale + k
    IN  [a |-> <<FxDiv(-(Scale - fc), a), 0>>,
         b |-> <<FxDiv(k, a), FxDiv(k, a), 0>>]

\* BiquadParams::highpass_1p, k the value of tan(fc/2); q is not used
Highpass1p(fc, k) ==
    LET a == Scale + k
    IN  [a |-> <<FxDiv(-(Scale - fc), a), 0>>,
         b |-> <<FxDiv(Scale, a), FxDiv(-Scale, a), 0>>]

\* Biquad::next_sample on the grid
FxBiquadNextSample(self, input) ==
    LET out == self.state[1] + FxMul(self.params.b[1], input)
        s0  == self.state[2] + FxMul(self.params.b[2], input)
                   - FxMul(self.params.a[1], out)
        s1  == FxMul(self.params.b[3], input) - FxMul(self.params.a[2], out)
    IN  [out |-> out, self |-> [params |-> self.params, state |-> <<s0, s1>>]]

\* the n-th value (from 0) of repeat(0.).take(10).chain(repeat(1.))
StepInput(n) == IF n < LeadingZeros THEN 0 ELSE Scale

StepKinds == {"lowpass_1p", "highpass_1p"}

StepParams(kind, fc, k) ==
    IF kind = "lowpass_1p" THEN Lowpass1p(fc, k) ELSE Highpass1p(fc, k)

StepIdle ==
    st = [kind |-> "none", biquad |-> BiquadNew(BiquadParamsDefault), n |-> 0,
          out |-> 0]

\* test_unit: Biquad::new(params)
StepInit ==
    \E kind \in StepKinds, fc \in FcValues :
        \E k \in TanHalf(fc) :
            st = [kind |-> kind, biquad |-> BiquadNew(StepParams(kind, fc, k)),
                  n |-> 0, out |-> 0]

\* test_unit: one sample of the iterator, through Biquad::next_sample
DoStepSample ==
    /\ st.n < StepSamples
    /\ LET r == FxBiquadNextSample(st.biquad, StepInput(st.n))
       IN  st' = [kind |-> st.kind, biquad |-> r.self, n |-> st.n + 1,
                  out |-> r.out]
    /\ UNCHANGED <<dlVars, pitch, bq, plug, mix, rv, blk>>

StepNext == DoStepSample

\* the value .last() returns is within the test's tolerance of steady
StepLastIs(steady) ==
    /\ st.out - steady <= Epsilon
    /\ steady - st.out <= Epsilon

\* (b0 + b1) / (1 + a1), the gain at frequency 0, is g
DcGainIs(g) ==
    LET c == st.biquad.params
    IN  c.b[1] + c.b[2] = g * (Scale + c.a[1])

\* C12: the filter built by lowpass_1p(0.3, 1), fed 10 zeros and then ones,
\* has unit gain at frequency 0 and returns 1.0 as its 5000th output.
C12_LowpassStepReachesOne ==
    (st.kind = "lowpass_1p" /\ st.n = StepSamples) =>
        DcGainIs(1) /\ StepLastIs(Scale)

\* C13: the filter built by highpass_1p(0.3, 1), fed 10 zeros and then ones,
\* has b0 + b1 = 0 and a pole -a1 of magnitude below 1, and returns 0.0, to
\* the tolerance of the test, as its 5000th output.
C13_HighpassStepReachesZero ==
    st.kind = "highpass_1p" =>
        /\ DcGainIs(0)
        /\ st.biquad.params.a[1] < Scale /\ -st.biquad.params.a[1] < Scale
        /\ (st.n = StepSamples => StepLastIs(0))

\* the 5000th output of the highpass filter
C13_Witness ==
    /\ st.kind = "highpass_1p"
    /\ st.n = StepSamples
    /\ StepLastIs(0)

----------------------------------------------------------------------------
(* The biquad plugin (src/plugin-biquad/src/lib.rs) *)

BiquadModes == {"Lowpass", "Highpass", "Bandpass"}

\* PluginParams::next_biquad_params: the coefficients of the current mode.
\* The code's coefficients are trigonometric functions of frequency and q;
\* these integers stand for them, with the zeros and the signs of
\* lowpass_1p (b0 = b1, b2 = a2 = 0), highpass_1p (b1 = -b0, b2 = a2 = 0) and
\* bandpass (b1 = 0, b2 = -b0).
NextBiquadParams(mode) ==
    CASE mode = "Lowpass"  -> [a |-> <<-1, 0>>, b |-> <<1, 1, 0>>]
      [] mode = "Highpass" -> [a |-> <<-1, 0>>, b |-> <<1, -1, 0>>]
      [] mode = "Bandpass" -> [a |-> <<-1, 1>>, b |-> <<1, 0, -1>>]

\* BiquadPlugin::default followed by Plugin::initialize
PlugNew ==
    [mode |-> "Lowpass", tick |-> FALSE, biquad |-> BiquadNew(BiquadParamsDefault),
     apc |-> "idle", gpc |-> "idle",
     used |-> "none", prevUsed |-> "none", hist |-> <<0, 0>>,
     calls |-> 0, changes |-> 0]

PlugIdle == plug = PlugNew

PlugInit == plug = PlugNew

PlugInputs == {0, 1}

\* audio thread, BiquadPlugin::next_sample, first statement: Tick::has_tick
\* (an atomic fetch_and(false)) and, on a tick, Biquad::reset
AudioHasTick ==
    /\ plug.apc = "idle"
    /\ plug.calls < MaxPlugCalls
    /\ plug' = [plug EXCEPT !.tick = FALSE,
                            !.biquad = IF plug.tick THEN BiquadReset(@) ELSE @,
                            !.apc = "ticked"]
    /\ UNCHANGED <<dlVars, pitch, bq, mix, rv, st, blk>>

\* audio thread, the rest of next_sample: next_biquad_params reads the mode,
\* the coefficients are stored and the sample is filtered.  used, prevUsed
\* and hist record the mode of this and of the previous filtered sample and
\* the history cells the sample was filtered with.
AudioFilter(input) ==
    /\ plug.apc = "ticked"
    /\ LET withParams == [params |-> NextBiquadParams(plug.mode),
                          state  |-> plug.biquad.state]
           r == BiquadNextSample(withParams, input)
       IN  plug' = [plug EXCEPT !.biquad = r.self,
                                !.apc = "idle",
                                !.prevUsed = plug.used,
                                !.used = plug.mode,
                                !.hist = plug.biquad.state,
                                !.calls = @ + 1]
    /\ UNCHANGED <<dlVars, pitch, bq, mix, rv, st, blk>>

\* parameter thread: the new value of the mode parameter is stored ...
ParamStore(mode) ==
    /\ plug.gpc = "idle"
    /\ plug.changes < MaxModeChanges
    /\ plug' = [plug EXCEPT !.mode = mode, !.gpc = "stored"]
    /\ UNCHANGED <<dlVars, pitch, bq, mix, rv, st, blk>>

\* ... and then the parameter's callback runs: Tick::tick
ParamCallback ==
    /\ plug.gpc = "stored"
    /\ plug' = [plug EXCEPT !.tick = TRUE, !.gpc = "idle", !.changes = @ + 1]
    /\ UNCHANGED <<dlVars, pitch, bq, mix, rv, st, blk>>

PlugNext ==
    \/ AudioHasTick
    \/ \E x \in PlugInputs : AudioFilter(x)
    \/ \E m \in BiquadModes : ParamStore(m)
    \/ ParamCallback

\* C7: under every interleaving, a sample filtered with the coefficients of
\* another mode than the sample before it is filtered with both history
\* cells reset to zero.
C7_ResetBeforeNewMode ==
    (plug.prevUsed # "none" /\ plug.used # plug.prevUsed) => plug.hist = <<0, 0>>

----------------------------------------------------------------------------
(* Mixing transforms (src/src/householder.rs, src/src/hadamard.rs).  A     *)
(* vector of L lanes is a function on 0..L-1, as the code indexes it.      *)

Width(v) == Cardinality(DOMAIN v)

RECURSIVE SumUpTo(_, _)
SumUpTo(v, n) == IF n = 0 THEN 0 ELSE v[n - 1] + SumUpTo(v, n - 1)

\* v.to_array().into_iter().sum()
LaneSum(v) == SumUpTo(v, Width(v))

\* the reflection with the factor -1/L in place of -2/L
TransformHalfFactor(v) == [i \in DOMAIN v |-> Width(v) * v[i] - LaneSum(v)]

\* householder::transform: s = sum(v) * (-2/L), v[i] += s.  The result is
\* given as numerators over the denominator L: L*v[i] - 2*sum(v).
Transform(v) == [i \in DOMAIN v |-> Width(v) * v[i] - 2 * LaneSum(v)]

\* one pass of fwht's while loop, at stride h: for each block of 2h lanes,
\* a[j] = x + y and a[j + h] = x - y with x = a[j], y = a[j + h]
FwhtPass(a, h) ==
    [k \in DOMAIN a |->
        IF (k \div h) % 2 = 0 THEN a[k] + a[k + h] ELSE a[k - h] - a[k]]

RECURSIVE FwhtFrom(_, _)
FwhtFrom(a, h) == IF h < Width(a) THEN FwhtFrom(FwhtPass(a, h), 2 * h) ELSE a

\* a butterfly that stores the sum in both lanes
FwhtSumOnly(a) ==
    LET pass(b, h) == [k \in DOMAIN b |->
                         IF (k \div h) % 2 = 0 THEN b[k] + b[k + h]
                         ELSE b[k - h] + b[k]]
    IN  IF Width(a) > 1 THEN FwhtFrom(pass(a, 1), 2) ELSE a

\* hadamard::fwht
Fwht(a) == FwhtFrom(a, 1)

\* std::simd's supported lane counts followed here
MixWidths == {1, 2, 4, 8}

MixVals == (-1)..MaxMix

MixVectors == UNION {[0..(L - 1) -> MixVals] : L \in MixWidths}

MixIdle == mix = [v |-> [i \in 0..0 |-> 0], op |-> "idle", out |-> [i \in 0..0 |-> 0]]

MixInit == \E v \in MixVectors : mix = [v |-> v, op |-> "none", out |-> v]

DoTransform ==
    /\ mix.op = "none"
    /\ mix' = [mix EXCEPT !.op = "transform", !.out = Transform(mix.v)]
    /\ UNCHANGED <<dlVars, pitch, bq, plug, rv, st, blk>>

DoFwht ==
    /\ mix.op = "none"
    /\ mix' = [mix EXCEPT !.op = "fwht", !.out = Fwht(mix.v)]
    /\ UNCHANGED <<dlVars, pitch, bq, plug, rv, st, blk>>

\* the index with an even multiplier
ShuffleIndexEven(n, width) == (n * 186 + 289) % width

\* shuffle (src/src/diffusion.rs), the lane read for lane n of the result
ShuffleIndex(n, width) == (n * 187 + 289) % width

\* shuffle, the factor k of lane n
ShuffleSign(n) == IF n % 2 = 0 THEN 1 ELSE -1

\* shuffle: lane n of the result is in_arr[i] * k
Shuffle(v) ==
    [n \in DOMAIN v |-> v[ShuffleIndex(n, Width(v))] * ShuffleSign(n)]

\* in_arr[i] is a checked index: i outside the array aborts the call
ShuffleAborts(v) == \E n \in DOMAIN v : ShuffleIndex(n, Width(v)) \notin DOMAIN v

DoShuffle ==
    /\ mix.op = "none"
    /\ mix' = IF ShuffleAborts(mix.v) THEN [mix EXCEPT !.op = "shuffle aborted"]
              ELSE [mix EXCEPT !.op = "shuffle", !.out = Shuffle(mix.v)]
    /\ UNCHANGED <<dlVars, pitch, bq, plug, rv, st, blk>>

MixNext == DoTransform \/ DoFwht \/ DoShuffle

RECURSIVE SumSqUpTo(_, _)
SumSqUpTo(v, n) == IF n = 0 THEN 0 ELSE v[n - 1] * v[n - 1] + SumSqUpTo(v, n - 1)

\* the sum of squares of the lanes
Energy(v) == SumSqUpTo(v, Width(v))

\* C9: transform preserves the sum of squares, for every vector of width
\* 2, 4 or 8 (mix.out holds numerators over L, so its energy is L*L times
\* the energy of the result).
C9_HouseholderEnergy ==
    (mix.op = "transform" /\ Width(mix.v) \in {2, 4, 8})
        => Energy(mix.out) = Width(mix.v) * Width(mix.v) * Energy(mix.v)

\* a transformed vector of width 8 with a non-zero lane sum
C9_Witness ==
    /\ mix.op = "transform"
    /\ Width(mix.v) = 8
    /\ LaneSum(mix.v) # 0
    /\ mix.out # [i \in DOMAIN mix.v |-> 8 * mix.v[i]]

\* C10 as claimed: the sum of squares of fwht(v) equals that of v.
C10_FwhtEnergy ==
    mix.op = "fwht" => Energy(mix.out) = Energy(mix.v)

\* C10 as amended: the sum of squares of fwht(v) is L times that of v, for
\* every vector of power-of-two width L.
C10_FwhtEnergyTimesWidth ==
    mix.op = "fwht" => Energy(mix.out) = Width(mix.v) * Energy(mix.v)

\* a transformed vector of width 8 with energy
C10_Witness ==
    /\ mix.op = "fwht"
    /\ Width(mix.v) = 8
    /\ Energy(mix.v) > 1
    /\ Energy(mix.out) = 8 * Energy(mix.v)

Abs(x) == IF x < 0 THEN -x ELSE x

\* the lanes of v holding a value of magnitude m
LanesOfMagnitude(v, m) == {n \in DOMAIN v : Abs(v[n]) = m}

\* C16: for every vector of 2, 4 or 8 lanes, shuffle reads no lane out of
\* range, the map n -> (n*187 + 289) mod L is one-to-one and onto 0..L-1,
\* so the result holds the magnitudes of the input lane for lane, and lane
\* n of the result is the lane read with sign +1 for even n, -1 for odd n.
C16_ShuffleSignedPermutation ==
    /\ mix.op # "shuffle aborted"
    /\ (mix.op = "shuffle" /\ Width(mix.v) \in {2, 4, 8}) =>
         LET L == Width(mix.v)
         IN  /\ \A n \in 0..(L - 1) : ShuffleIndex(n, L) \in 0..(L - 1)
             /\ \A i \in 0..(L - 1) :
                  Cardinality({n \in 0..(L - 1) : ShuffleIndex(n, L) = i}) = 1
             /\ \A m \in 0..MaxMix :
                  Cardinality(LanesOfMagnitude(mix.out, m))
                      = Cardinality(LanesOfMagnitude(mix.v, m))
             /\ \A n \in 0..(L - 1) :
                  mix.out[n] = IF n % 2 = 0 THEN mix.v[ShuffleIndex(n, L)]
                               ELSE -mix.v[ShuffleIndex(n, L)]

\* a shuffled vector of width 8 with one lane of each sign and silence in
\* the others, whose result is not the input
C16_Witness ==
    /\ mix.op = "shuffle"
    /\ Width(mix.v) = 8
    /\ Cardinality(LanesOfMagnitude(mix.v, 1)) = 2
    /\ LaneSum(mix.v) = 0
    /\ mix.out # mix.v

----------------------------------------------------------------------------
(* f32 values in the engine.  A value is kept exactly while it is a whole   *)
(* number, and by its kind otherwise: "unit" is a number of magnitude at    *)
(* most 1, "fin" a finite number of any magnitude, "nan" is NaN.  Infinite  *)
(* samples, and finite samples so large that f32 arithmetic overflows, are  *)
(* not followed.                                                            *)

Num(n) == [c |-> "num", n |-> n]

UnitVal == [c |-> "unit", n |-> 0]

FinVal == [c |-> "fin", n |-> 0]

NanVal == [c |-> "nan", n |-> 0]

IsNan(a) == a.c = "nan"

\* a number of magnitude at most 1
InUnit(a) == a.c = "unit" \/ (a.c = "num" /\ -1 <= a.n /\ a.n <= 1)

\* a + b: NaN when either is NaN
VAdd(a, b) ==
    IF IsNan(a) \/ IsNan(b) THEN NanVal
    ELSE IF a.c = "num" /\ b.c = "num" THEN Num(a.n + b.n)
    ELSE IF a = Num(0) THEN b
    ELSE IF b = Num(0) THEN a
    ELSE FinVal

\* a * k for a whole number k: NaN * 0 is NaN
VMul(a, k) ==
    IF IsNan(a) THEN NanVal
    ELSE IF a.c = "num" THEN Num(a.n * k)
    ELSE IF k = 0 THEN Num(0)
    ELSE IF k = 1 \/ k = -1 THEN a
    ELSE FinVal

\* the saturation left out
VTanhBypass(a) == a

\* f32::tanh: tanh(0) = 0, tanh(NaN) = NaN, every other number into [-1, 1]
VTanh(a) ==
    IF IsNan(a) THEN NanVal ELSE IF a = Num(0) THEN Num(0) ELSE UnitVal

ZeroFrame(lanes) == [l \in lanes |-> Num(0)]

\* A delay line of the engine is kept by its length and the frames pushed
\* into it so far, newest first; every older frame is the zero frame of
\* Delay::new.
VDelayNew(maxDelay) == [len |-> maxDelay, recent |-> <<>>]

\* Delay::push_next
VPushNext(line, next) ==
    LET n   == PushLen(line.len)
        all == <<next>> \o line.recent
    IN  [len |-> n, recent |-> IF Len(all) > n THEN SubSeq(all, 1, n) ELSE all]

\* Delay::sample, lane l of the frame it returns, for an index inside the line
VSample(line, i, l) ==
    LET idx == SampleIndex(line.len, i)
    IN  IF idx < Len(line.recent) THEN line.recent[idx + 1][l] ELSE Num(0)

\* cubic(t, p) on one lane, t = n/FRAC: every anchor enters the sum, so one
\* NaN anchor makes the result NaN; at t = 0 the result is p[1] (p[2] here)
VCubic(n, p) ==
    IF \E j \in 1..4 : IsNan(p[j]) THEN NanVal
    ELSE IF n = 0 THEN p[2]
    ELSE IF \A j \in 1..4 : p[j] = Num(0) THEN Num(0)
    ELSE FinVal

\* Delay::tap, lane l of the frame it returns when it does not abort
VTapLane(line, pos, l) ==
    LET p  == TapPosition(line.len, pos)
        an == TapAnchors(FloorUsize(p))
    IN  VCubic(Fract(p), [j \in 1..4 |-> VSample(line, an[j], l)])

\* Delay::tap
VTap(line, pos, lanes) == [l \in lanes |-> VTapLane(line, pos, l)]

\* Delay::get: lane l of the result is lane l of tap(pos[l])
VGet(line, pos) == [l \in DOMAIN pos |-> VTapLane(line, pos[l], l)]

\* householder::transform: every lane enters the sum
VTransform(v) ==
    IF \E i \in DOMAIN v : IsNan(v[i]) THEN [i \in DOMAIN v |-> NanVal]
    ELSE IF \A i \in DOMAIN v : v[i] = Num(0) THEN v
    ELSE [i \in DOMAIN v |-> FinVal]

\* Biquad::next_sample on every lane of a frame; state[l] holds the two
\* history cells of lane l
VBiquadNew(params, lanes) ==
    [params |-> params, state |-> [l \in lanes |-> <<Num(0), Num(0)>>]]

VBiquadNextSample(self, input) ==
    LET c      == self.params
        out(l) == VAdd(self.state[l][1], VMul(input[l], c.b[1]))
        s0(l)  == VAdd(VAdd(self.state[l][2], VMul(input[l], c.b[2])),
                       VMul(out(l), -c.a[1]))
        s1(l)  == VAdd(VMul(input[l], c.b[3]), VMul(out(l), -c.a[2]))
    IN  [out  |-> [l \in DOMAIN input |-> out(l)],
         self |-> [params |-> c,
                   state  |-> [l \in DOMAIN input |-> <<s0(l), s1(l)>>]]]

----------------------------------------------------------------------------
(* The reverb engine (src/src/lib.rs, early.rs, diffusion.rs, pitch.rs).    *)
(* Positions are rounded to the 1/FRAC grid; with the bounds as written     *)
(* every position below is on the grid.                                     *)

\* Early<4>: four Diffusion<4> stages of four lanes
EarlyLanes == 4

\* the engine's frames are f32x2
StereoLanes == 2

Stages == 0..(EarlyLanes - 1)

DiffLanes == 0..(EarlyLanes - 1)

StereoIdx == 0..(StereoLanes - 1)

SampleRate == 40 * RateUnit

\* Early::new: stage i is built with 400e-3 * samplerate * (1 + (i/LANES)^2)
StageRate(samplerate, i) ==
    (4 * samplerate * (EarlyLanes * EarlyLanes + i * i))
        \div (10 * EarlyLanes * EarlyLanes)

\* Diffusion::new.  offsets[l] is kept as samplerate * offsets[l], in 1/FRAC
\* samples; phases[l] in quarter turns.
DiffusionNew(samplerate, offsets, phases) ==
    [delay |-> VDelayNew(samplerate), samplerate |-> samplerate,
     offsets |-> offsets, phases |-> phases]

\* f32::sin(TAU * p) at the quarter turns
SinTau(q) == CASE q % 4 = 0 -> 0
               [] q % 4 = 1 -> 1
               [] q % 4 = 2 -> 0
               [] q % 4 = 3 -> -1

\* Diffusion::next_sample, the delay of lane l:
\* samplerate * (300e-3 * (l/L) * size + offsets[l] + 3e-3 * mod_depth * sin(TAU * phases[l]))
DiffusionDelay(self, size, modDepth, l) ==
    (FRAC * self.samplerate * 3 * l * size) \div (10 * EarlyLanes)
    + self.offsets[l]
    + (FRAC * self.samplerate * 3 * modDepth * SinTau(self.phases[l])) \div 1000

\* Diffusion::next_sample, the phases: p += 0.3 / samplerate, and p -= 1 when
\* p > 1.  The increment is far below a quarter turn: a phase is kept at the
\* last quarter turn it has reached, and a call either reaches the next one
\* (turn) or not.
PhaseStep(p, turn) ==
    IF ~turn THEN p ELSE IF p + 1 > 4 THEN p + 1 - 4 ELSE p + 1

\* shuffle on a frame of the engine
VShuffle(v) ==
    [n \in DOMAIN v |->
        VMul(v[ShuffleIndex(n, Cardinality(DOMAIN v))], ShuffleSign(n))]

\* Diffusion::new, polarity: the second half of -1 interleaved with 1
Polarity(l) == IF l % 2 = 0 THEN -1 ELSE 1

\* Diffusion::next_sample: the lane delays, the phases, Delay::get, shuffle,
\* push_next, householder::transform.  A lane tap that aborts ends the call.
DiffusionNextSample(self, size, modDepth, input, turn) ==
    LET delays == [l \in DiffLanes |-> DiffusionDelay(self, size, modDepth, l)]
        panic  == \E l \in DiffLanes : TapAborts(self.delay.len, delays[l])
        taps   == VShuffle(VGet(self.delay, delays))
    IN  [panic |-> panic,
         out   |-> IF panic THEN input
                   ELSE VTransform([l \in DiffLanes |-> VMul(taps[l], Polarity(l))]),
         self  |-> IF panic THEN self
                   ELSE [self EXCEPT
                            !.phases = [l \in DiffLanes |-> PhaseStep(@[l], turn)],
                            !.delay = VPushNext(@, input)]]

\* Early::next_sample: the sample folded through the stages from stage i on
RECURSIVE EarlyFold(_, _, _, _, _, _)
EarlyFold(ap, i, size, modDepth, s, turn) ==
    IF i >= EarlyLanes THEN [panic |-> FALSE, out |-> s, ap |-> ap]
    ELSE LET r == DiffusionNextSample(ap[i], size, modDepth, s, turn)
         IN  IF r.panic THEN [panic |-> TRUE, out |-> s, ap |-> ap]
             ELSE EarlyFold([ap EXCEPT ![i] = r.self], i + 1, size, modDepth,
                            r.out, turn)

\* Early::next_sample
EarlyNextSample(ap, size, modDepth, input, turn) ==
    EarlyFold(ap, 0, size, modDepth, input, turn)

\* Early::new
EarlyNew(samplerate, offsets, phases) ==
    [i \in Stages |-> DiffusionNew(StageRate(samplerate, i), offsets[i], phases[i])]

\* PitchShifter::next_sample on the engine's frames
VPitchNextSample(self, ratio, input) ==
    [panic |-> TapAborts(self.buffer.len, self.pos),
     out   |-> VTap(self.buffer, self.pos, StereoIdx),
     self  |-> [buffer |-> VPushNext(self.buffer, input),
                pos    |-> PitchAdvance(self.buffer.len, self.pos, ratio)]]

\* Reverb::new
ReverbNew(samplerate, offsets, phases) ==
    [delay     |-> VDelayNew(samplerate * 2),
     diffusion |-> EarlyNew(samplerate, offsets, phases),
     damp_low  |-> VBiquadNew(BiquadParamsDefault, StereoIdx),
     damp_high |-> VBiquadNew(BiquadParamsDefault, StereoIdx),
     pitch     |-> [buffer |-> VDelayNew(300 * samplerate), pos |-> 0]]

\* Reverb::next_sample, the position of the feedback tap:
\* (delay * samplerate).max(1.).min(samplerate - 1.), delay in milliseconds
FeedbackPosition(samplerate, delayMs) ==
    LET raw == (FRAC * samplerate * delayMs) \div 1000
        lo  == IF raw < FRAC THEN FRAC ELSE raw
    IN  IF lo > FRAC * (samplerate - 1) THEN FRAC * (samplerate - 1) ELSE lo

\* the damping filters taken in the other order
DampHighFirst(dampLow, dampHigh, fed) ==
    LET high == VBiquadNextSample(dampHigh, fed)
        low  == VBiquadNextSample(dampLow, high.out)
    IN  [out |-> low.out, damp_low |-> low.self, damp_high |-> high.self]

\* Reverb::next_sample, the damping filters: damp_low.next_sample(delayed),
\* then damp_high.next_sample of its result
Damp(dampLow, dampHigh, fed) ==
    LET low  == VBiquadNextSample(dampLow, fed)
        high == VBiquadNextSample(dampHigh, low.out)
    IN  [out |-> high.out, damp_low |-> low.self, damp_high |-> high.self]

\* fed is the frame a call handed to its damping filters, damped the frame
\* it expanded to the lanes of the diffusion
NoProbe == [fed |-> ZeroFrame(StereoIdx), damped |-> ZeroFrame(StereoIdx)]

\* Reverb::next_sample: the feedback tap, damp_low, damp_high,
\* Early::next_sample, PitchShifter::next_sample with the ratio 2., the blend,
\* tanh, the push into the feedback line.  fault names the first read that
\* aborts; an aborted call returns nothing and leaves nothing behind.
ReverbNextSample(self, samplerate, size, feedback, delayMs, modDepth, pitchAmt, sample, turn) ==
    LET pos      == FeedbackPosition(samplerate, delayMs)
        tapped   == VTap(self.delay, pos, StereoIdx)
        fed      == [l \in StereoIdx |-> VAdd(sample[l], VMul(tapped[l], feedback))]
        damp     == Damp(self.damp_low, self.damp_high, fed)
        early    == EarlyNextSample(self.diffusion, size, modDepth,
                                    [l \in DiffLanes |-> damp.out[l % StereoLanes]],
                                    turn)
        diffused == [l \in StereoIdx |-> early.out[l]]
        shifted  == VPitchNextSample(self.pitch, 2 * FRAC, diffused)
        blended  == [l \in StereoIdx |->
                        VAdd(VMul(diffused[l], 1 - pitchAmt),
                             VMul(shifted.out[l], pitchAmt))]
        out      == [l \in StereoIdx |-> VTanh(blended[l])]
        fault    == IF TapAborts(self.delay.len, pos) THEN "feedback"
                    ELSE IF early.panic THEN "diffusion"
                    ELSE IF shifted.panic THEN "pitch"
                    ELSE "none"
    IN  [fault |-> fault,
         out   |-> IF fault = "none" THEN out ELSE ZeroFrame(StereoIdx),
         probe |-> IF fault # "none" THEN NoProbe
                   ELSE [fed |-> fed, damped |-> damp.out],
         self  |-> IF fault # "none" THEN self
                   ELSE [delay     |-> VPushNext(self.delay, out),
                         diffusion |-> early.ap,
                         damp_low  |-> damp.damp_low,
                         damp_high |-> damp.damp_high,
                         pitch     |-> shifted.self]]

----------------------------------------------------------------------------
(* The engine specification: built by new(SampleRate) with jitter offsets   *)
(* in [-0.01, 0.01) and start phases in [0, 1), called as Reverb::process   *)
(* calls it, with parameters in their documented ranges                     *)

\* the least and the greatest offset of stage i, as samplerate * offset
OffsetLo(i) == -((FRAC * StageRate(SampleRate, i)) \div 100)

OffsetHi(i) == ((FRAC * StageRate(SampleRate, i) + 99) \div 100) - 1

\* the offsets followed per stage: none, the extremes, and values near zero
OffsetChoices == {"none", "ends", "near"}

OffsetVector(i, c) ==
    CASE c = "none" -> [l \in DiffLanes |-> 0]
      [] c = "ends" -> [l \in DiffLanes |-> IF l % 2 = 0 THEN OffsetHi(i) ELSE OffsetLo(i)]
      [] c = "near" -> [l \in DiffLanes |-> CASE l = 0 -> -1
                                              [] l = 1 -> 1
                                              [] l = 2 -> OffsetLo(i)
                                              [] OTHER -> OffsetHi(i)]

\* the start phases followed, in quarter turns
PhaseVectors ==
    { [l \in DiffLanes |-> 0], [l \in DiffLanes |-> (3 * l + 3) % 4] }

\* size and mod_depth at the ends of [0, 1]; delay_time 1 ms, 200 ms, 2 s
Sizes == {0, 1}

ModDepths == {0, 1}

DelayTimesMs == {1, 200, 2000}

\* Reverb::process hands next_sample delay_time + 15e-3 * mod_depth * sin(..):
\* with delay_time 1 ms and mod_depth 1 that is as low as -14 ms
ShortDelayMs == -14

\* feedback 0 and 1, inside [0, 1.25]; pitch_amt at the ends of [0, 1]
Feedbacks == {0, 1}

PitchAmts == {0, 1}

\* the frames the host hands in: silence, a frame with a sample at full scale
\* and one beyond it, and a frame whose left sample is NaN
EngineSamples ==
    { [l \in StereoIdx |-> Num(0)],
      [l \in StereoIdx |-> Num(l + 1)],
      [l \in StereoIdx |-> IF l = 0 THEN NanVal ELSE Num(0)] }

\* Reverb::process, the coefficients it writes to the damping filters before
\* each call: highpass_1p for damp_low, lowpass_1p for damp_high.  The code's
\* coefficients are functions of the damping frequencies; these whole numbers
\* stand for them, with their zeros and signs (a1 < 0, b0 > 0, b1 = -b0 or
\* b0, a2 = b2 = 0) and with a1 away from -1, where b0 + b1/z would cancel
\* against 1 + a1/z.
DampLowParams == [a |-> <<-2, 0>>, b |-> <<1, -1, 0>>]

DampHighParams == [a |-> <<-2, 0>>, b |-> <<1, 1, 0>>]

RvIdle ==
    rv = [self |-> ReverbNew(0, [i \in Stages |-> [l \in DiffLanes |-> 0]],
                                [i \in Stages |-> [l \in DiffLanes |-> 0]]),
          fault |-> "none", calls |-> 0, args |-> <<>>,
          out |-> ZeroFrame(StereoIdx), probe |-> NoProbe, clean |-> TRUE]

\* Reverb::new: every stage draws its offsets the same way
RvInit ==
    \E c \in OffsetChoices, ph \in PhaseVectors :
        rv = [self |-> ReverbNew(SampleRate,
                                 [i \in Stages |-> OffsetVector(i, c)],
                                 [i \in Stages |-> ph]),
              fault |-> "none", calls |-> 0, args |-> <<>>,
              out |-> ZeroFrame(StereoIdx), probe |-> NoProbe, clean |-> TRUE]

\* Reverb::new with no jitter and every phase at 0
RvDataInit ==
    rv = [self |-> ReverbNew(SampleRate,
                             [i \in Stages |-> OffsetVector(i, "none")],
                             [i \in Stages |-> [l \in DiffLanes |-> 0]]),
          fault |-> "none", calls |-> 0, args |-> <<>>,
          out |-> ZeroFrame(StereoIdx), probe |-> NoProbe, clean |-> TRUE]

\* one pass of the loop of Reverb::process: the damping coefficients are
\* written, then Reverb::next_sample is called; after an abort nothing more
\* is called.  args keeps the arguments of the call that aborted, out the
\* frame returned, clean whether no sample handed in so far was NaN.
DoReverbSample(size, feedback, delayMs, modDepth, pitchAmt, sample, turn) ==
    /\ rv.fault = "none"
    /\ rv.calls < MaxEngineCalls
    /\ LET ready == [rv.self EXCEPT !.damp_low.params = DampLowParams,
                                    !.damp_high.params = DampHighParams]
           r == ReverbNextSample(ready, SampleRate, size, feedback, delayMs,
                                 modDepth, pitchAmt, sample, turn)
       IN  rv' = [self |-> r.self, fault |-> r.fault, calls |-> rv.calls + 1,
                  args |-> IF r.fault = "none" THEN <<>>
                           ELSE <<size, delayMs, modDepth>>,
                  out |-> r.out, probe |-> r.probe,
                  clean |-> rv.clean /\ \A l \in StereoIdx : ~IsNan(sample[l])]
    /\ UNCHANGED <<dlVars, pitch, bq, plug, mix, st, blk>>

\* the engine run on silence, with every choice of the parameters that
\* decide where the delay lines are read
RvNext ==
    \E size \in Sizes, delayMs \in DelayTimesMs, modDepth \in ModDepths,
       turn \in BOOLEAN :
        DoReverbSample(size, 1, delayMs, modDepth, 0, ZeroFrame(StereoIdx), turn)

\* the engine run on every choice of the samples and of the parameters that
\* scale them, with the shortest feedback delay and no modulation
RvDataNext ==
    \E size \in Sizes, feedback \in Feedbacks, pitchAmt \in PitchAmts,
       sample \in EngineSamples :
        DoReverbSample(size, feedback, ShortDelayMs, 0, pitchAmt, sample, FALSE)

\* C3: no call of next_sample aborts: every delay read of the call (the
\* feedback tap, the stages' lane taps, the pitch shifter's tap) stays
\* inside its buffer.
C3_NextSampleNeverAborts == rv.fault = "none"

\* every lane of the frame returned last, and of every frame stored in the
\* feedback line, is a number of magnitude at most 1
EngineBounded ==
    /\ \A l \in StereoIdx : InUnit(rv.out[l])
    /\ \A i \in 1..Len(rv.self.delay.recent) :
          \A l \in StereoIdx : InUnit(rv.self.delay.recent[i][l])

\* C11 as claimed: for every input sequence, every frame returned and every
\* value stored in the feedback line has magnitude at most 1.
C11_OutputBounded == EngineBounded

\* C11 as amended: while no sample handed in was NaN, every frame returned
\* and every value stored in the feedback line has magnitude at most 1.
C11_OutputBoundedWithoutNan == rv.clean => EngineBounded

\* a returned frame that went through the saturation with a signal in it,
\* and is stored at the front of the feedback line
C11_Witness ==
    /\ rv.clean /\ rv.fault = "none" /\ rv.calls > 0
    /\ rv.out[0] = UnitVal
    /\ rv.self.delay.recent[1] = rv.out

\* the damping filters as the call that led to the next state found them:
\* the history cells of this state, the coefficients written before the call
DampLowBefore ==
    [params |-> rv'.self.damp_low.params, state |-> rv.self.damp_low.state]

DampHighBefore ==
    [params |-> rv'.self.damp_high.params, state |-> rv.self.damp_high.state]

\* a step that is a call of next_sample that returned
EngineReturned == rv'.calls = rv.calls + 1 /\ rv'.fault = "none"

\* C15 as claimed: in every call that returns, fed is filtered by damp_high,
\* the result by damp_low, that result goes on to the lanes, and each filter
\* is left as one update from what it was.
C15_DampHighThenLow ==
    [][EngineReturned =>
         LET high == VBiquadNextSample(DampHighBefore, rv'.probe.fed)
             low  == VBiquadNextSample(DampLowBefore, high.out)
         IN  /\ rv'.probe.damped = low.out
             /\ rv'.self.damp_high = high.self
             /\ rv'.self.damp_low = low.self]_vars

\* C15 as amended: in every call that returns, fed is filtered by damp_low,
\* the result by damp_high, that result goes on to the lanes, and each filter
\* is left as one update from what it was.
C15_DampLowThenHigh ==
    [][EngineReturned =>
         LET low  == VBiquadNextSample(DampLowBefore, rv'.probe.fed)
             high == VBiquadNextSample(DampHighBefore, low.out)
         IN  /\ rv'.probe.damped = high.out
             /\ rv'.self.damp_low = low.self
             /\ rv'.self.damp_high = high.self]_vars

\* a call that returned, with a signal in fed, in what went on to the lanes
\* and in both filters, the two filters holding different histories
C15_Witness ==
    /\ rv.fault = "none" /\ rv.calls >= 2
    /\ \A l \in StereoIdx :
          /\ rv.probe.fed[l].c = "num" /\ rv.probe.fed[l].n # 0
          /\ rv.probe.damped[l] # rv.probe.fed[l]
          /\ rv.self.damp_low.state[l][1] # Num(0)
          /\ rv.self.damp_high.state[l][1] # rv.self.damp_low.state[l][1]

----------------------------------------------------------------------------
(* Block processing (src/src/early.rs, src/src/diffusion.rs): next_block    *)
(* beside the loop of next_sample, from the same cascade state.             *)

BlockIdx == 1..BlockLen

\* Diffusion::next_block with the result of next_sample not stored
RECURSIVE DiffusionBlockKeepInput(_, _, _, _, _, _)
DiffusionBlockKeepInput(self, size, modDepth, buf, turn, j) ==
    IF j > Len(buf) THEN [panic |-> FALSE, self |-> self, buffer |-> buf]
    ELSE LET r == DiffusionNextSample(self, size[j], modDepth[j], buf[j], turn[j])
         IN  IF r.panic THEN [panic |-> TRUE, self |-> self, buffer |-> buf]
             ELSE DiffusionBlockKeepInput(r.self, size, modDepth, buf, turn, j + 1)

\* Diffusion::next_block from sample j of the buffer on: the sample is
\* replaced by what next_sample returns for it, with size[j] and mod_depth[j]
RECURSIVE DiffusionBlockFrom(_, _, _, _, _, _)
DiffusionBlockFrom(self, size, modDepth, buf, turn, j) ==
    IF j > Len(buf) THEN [panic |-> FALSE, self |-> self, buffer |-> buf]
    ELSE LET r == DiffusionNextSample(self, size[j], modDepth[j], buf[j], turn[j])
         IN  IF r.panic THEN [panic |-> TRUE, self |-> self, buffer |-> buf]
             ELSE DiffusionBlockFrom(r.self, size, modDepth,
                                     [buf EXCEPT ![j] = r.out], turn, j + 1)

\* Diffusion::next_block
DiffusionNextBlock(self, size, modDepth, buf, turn) ==
    DiffusionBlockFrom(self, size, modDepth, buf, turn, 1)

\* Early::next_block from stage i on: each stage runs over the whole buf
RECURSIVE EarlyBlockFrom(_, _, _, _, _, _)
EarlyBlockFrom(ap, i, size, modDepth, buf, turn) ==
    IF i >= EarlyLanes THEN [panic |-> FALSE, ap |-> ap, buffer |-> buf]
    ELSE LET r == DiffusionNextBlock(ap[i], size, modDepth, buf, turn)
         IN  IF r.panic THEN [panic |-> TRUE, ap |-> ap, buffer |-> buf]
             ELSE EarlyBlockFrom([ap EXCEPT ![i] = r.self], i + 1, size, modDepth,
                                 r.buffer, turn)

\* Early::next_block
EarlyNextBlock(ap, size, modDepth, buf, turn) ==
    EarlyBlockFrom(ap, 0, size, modDepth, buf, turn)

\* Early::next_sample called on the samples of the buffer one by one, from
\* sample j on, each result stored in place of its sample
RECURSIVE EarlySampleLoop(_, _, _, _, _, _)
EarlySampleLoop(ap, size, modDepth, buf, turn, j) ==
    IF j > Len(buf) THEN [panic |-> FALSE, ap |-> ap, buffer |-> buf]
    ELSE LET r == EarlyNextSample(ap, size[j], modDepth[j], buf[j], turn[j])
         IN  IF r.panic THEN [panic |-> TRUE, ap |-> ap, buffer |-> buf]
             ELSE EarlySampleLoop(r.ap, size, modDepth,
                                  [buf EXCEPT ![j] = r.out], turn, j + 1)

\* the frames of a buf: silence, a frame of four different samples, and
\* a frame whose first lane is NaN
EarlyFrames ==
    { ZeroFrame(DiffLanes),
      [l \in DiffLanes |-> Num(l + 1)],
      [l \in DiffLanes |-> IF l = 0 THEN NanVal ELSE Num(0)] }

\* the buffers followed: the second frame is silence or the first again
BlockBuffers ==
    { [j \in BlockIdx |-> IF j = 1 \/ again THEN f ELSE ZeroFrame(DiffLanes)] :
          f \in EarlyFrames, again \in BOOLEAN }

\* size, mod_depth and the phase steps, sample by sample
BlockSizes == [BlockIdx -> Sizes]

BlockModDepths == [BlockIdx -> ModDepths]

BlockTurns == { [j \in BlockIdx |-> j = 1], [j \in BlockIdx |-> FALSE] }

NoBlock == [panic |-> FALSE, ap |-> <<>>, buffer |-> <<>>]

BlockIdle ==
    blk = [ap |-> <<>>, blocks |-> 0, block |-> NoBlock, loop |-> NoBlock]

\* Early::new
BlockInit ==
    \E c \in OffsetChoices, ph \in PhaseVectors :
        blk = [ap |-> EarlyNew(SampleRate, [i \in Stages |-> OffsetVector(i, c)],
                               [i \in Stages |-> ph]),
               blocks |-> 0, block |-> NoBlock, loop |-> NoBlock]

\* one block through Early::next_block; loop holds what the loop of
\* Early::next_sample makes of the same cascade and the same arrays
DoNextBlock(size, modDepth, buf, turn) ==
    /\ blk.blocks < MaxBlocks
    /\ ~blk.block.panic
    /\ LET b == EarlyNextBlock(blk.ap, size, modDepth, buf, turn)
           s == EarlySampleLoop(blk.ap, size, modDepth, buf, turn, 1)
       IN  blk' = [ap |-> b.ap, blocks |-> blk.blocks + 1, block |-> b, loop |-> s]
    /\ UNCHANGED <<dlVars, pitch, bq, plug, mix, rv, st>>

BlockNext ==
    \E size \in BlockSizes, modDepth \in BlockModDepths, buf \in BlockBuffers,
       turn \in BlockTurns :
        DoNextBlock(size, modDepth, buf, turn)

\* C17: from every cascade state and for every arrays of one length,
\* Early::next_block aborts exactly when the loop of Early::next_sample
\* does, and otherwise leaves the same buffer and the same state in every
\* stage (delay line and phases); stage by stage this is
\* Diffusion::next_block beside the loop of Diffusion::next_sample.
C17_BlockIsSampleLoop ==
    /\ blk.block.panic = blk.loop.panic
    /\ ~blk.block.panic =>
         /\ blk.block.buffer = blk.loop.buffer
         /\ blk.block.ap = blk.loop.ap

\* a second block has gone through the cascade: frames of the first block
\* have passed three stages and stand in the delay line of the last, a
\* phase has moved, and every stage has taken in both blocks
C17_Witness ==
    /\ blk.blocks = 2
    /\ ~blk.block.panic
    /\ \A i \in Stages : Len(blk.ap[i].delay.recent) = 2 * BlockLen
    /\ \E n \in 1..(2 * BlockLen) : \E l \in DiffLanes :
          blk.ap[EarlyLanes - 1].delay.recent[n][l] # Num(0)
    /\ \E i \in Stages : \E l \in DiffLanes : blk.ap[i].phases[l] # 0
    /\ blk.block.buffer = blk.loop.buffer

----------------------------------------------------------------------------
(* Specifications *)

Init == DelayInit /\ PitchIdle /\ BiquadIdle /\ PlugIdle /\ MixIdle /\ RvIdle /\ StepIdle /\ BlockIdle

Next == DelayNext

Spec == Init /\ [][Next]_vars

InitPitch == DelayIdle /\ PitchInit /\ BiquadIdle /\ PlugIdle /\ MixIdle /\ RvIdle /\ StepIdle /\ BlockIdle

SpecPitch == InitPitch /\ [][PitchNext]_vars

InitBiquad == DelayIdle /\ PitchIdle /\ BiquadInit /\ PlugIdle /\ MixIdle /\ RvIdle /\ StepIdle /\ BlockIdle

SpecBiquad == InitBiquad /\ [][BiquadNext]_vars

InitPlugin == DelayIdle /\ PitchIdle /\ BiquadIdle /\ PlugInit /\ MixIdle /\ RvIdle /\ StepIdle /\ BlockIdle

SpecPlugin == InitPlugin /\ [][PlugNext]_vars

InitMix == DelayIdle /\ PitchIdle /\ BiquadIdle /\ PlugIdle /\ MixInit /\ RvIdle /\ StepIdle /\ BlockIdle

SpecMix == InitMix /\ [][MixNext]_vars

InitReverb == DelayIdle /\ PitchIdle /\ BiquadIdle /\ PlugIdle /\ MixIdle /\ RvInit /\ StepIdle /\ BlockIdle

SpecReverb == InitReverb /\ [][RvNext]_vars

InitEngine == DelayIdle /\ PitchIdle /\ BiquadIdle /\ PlugIdle /\ MixIdle /\ RvDataInit /\ StepIdle /\ BlockIdle

SpecEngine == InitEngine /\ [][RvDataNext]_vars

InitStep == DelayIdle /\ PitchIdle /\ BiquadIdle /\ PlugIdle /\ MixIdle /\ RvIdle /\ StepInit /\ BlockIdle

SpecStep == InitStep /\ [][StepNext]_vars

InitBlock == DelayIdle /\ PitchIdle /\ BiquadIdle /\ PlugIdle /\ MixIdle /\ RvIdle /\ StepIdle /\ BlockInit

SpecBlock == InitBlock /\ [][BlockNext]_vars

====
